---- MODULE Spec2Model ----
(***************************************************************************)
(* NvFBC display capture of src/platform/linux/cuda.cpp: the session       *)
(* handle (handle_t), the display session (display_t) with its reinit /    *)
(* snapshot state machine, and the frame pump loop of display_t::capture.  *)
(*                                                                         *)
(* The vendor driver is the environment: every driver call may succeed or  *)
(* fail, and a grab may report direct delivery or not.  One display_t      *)
(* lives at a time; it is created by platf::nvfbc_display, captured from   *)
(* any number of times and then released.                                  *)
(*                                                                         *)
(* Two specifications share the state.  SpecCreate starts where the        *)
(* process starts and runs the bootstrap (nvfbc::init), the enumeration    *)
(* and the creation of display sessions for every selector and every       *)
(* driver status.  Spec starts after a successful bootstrap and runs the   *)
(* frame pump on displays of the full desktop.                             *)
(***************************************************************************)
EXTENDS Integers, Sequences, FiniteSets, TLC

\* ------------------------------------------------------------- bounds
\* handles the driver hands out over the run
MaxHandles == 2
\* capture() invocations on one display_t
MaxCaptures == 2
\* the sink returns a null buffer at the latest on its MaxFrames-th invocation
MaxFrames == 3
\* how far a clock reading may lie past the instant the thread wanted to wake
MaxLate == 1
\* clock ticks in one second (std::chrono::nanoseconds { 1s }, scaled down)
Second == 2
\* frame rates a caller may ask for are 1..MaxRate
MaxRate == 2
\* the driver reports 0..MaxOutputs outputs
MaxOutputs == 2

\* ---------------------------------------------------- program constants
\* for(int x = 0; x < 3; ++x): probe grabs of one reinit
ProbeAttempts == 3

VARIABLES
  pc,              \* where the display session is: "none", "ready", or a place inside capture()
  handle,          \* display_t::handle, a handle_t
  cursor_visible,  \* display_t::cursor_visible
  capture_params,  \* display_t::capture_params (the three fields reinit writes)
  delay,           \* display_t::delay, in ticks
  img,             \* capture(): img is non-null
  cursor,          \* capture(): the value last read through bool *cursor
  next_frame,      \* capture(): next_frame
  now,             \* capture(): now, the last clock reading
  x,               \* reinit(): the probe loop counter
  info,            \* reinit(): info.bDirectCapture after the last probe grab
  status,          \* the value capture() returns / returned last
  created,         \* driver: session handles created so far
  destroyed,       \* driver: nvFBCDestroyHandle calls issued, per handle
  log,             \* history: driver calls and sink calls since the current snapshot() began
  plog,            \* history: the same for the snapshot() call before it
  pcursor,         \* history: the cursor argument of the snapshot() call before the current one
  lastReinit,      \* history: the cursor argument of the latest reinit() call
  prevReinit,      \* history: the cursor argument of the reinit() call before that
  last,            \* history: the latest handle_t method run on display_t::handle
  sinkCalls,       \* history: sink invocations in this capture() call
  okSnaps,         \* history: snapshot() calls that returned ok in this capture() call
  iter,            \* history: iterations of the frame pump loop begun in this capture() call
  deadline0,       \* history: next_frame as capture() initialised it
  captures,        \* history: capture() invocations on this display_t
  geometry,        \* display_t: width, height, offset_x, offset_y, env_width, env_height
  tracking,        \* display_t::capture_params, the fields init writes
  init_args,       \* history: the latest display_t::init call, what it was given and returned
  funcs_loaded,    \* nvfbc::init(): static bool funcs_loaded
  nvfbc_handle,    \* nvfbc::handle, the library handle ("null" or "lib")
  func,            \* nvfbc::func, the driver's function table ("unset" or "set")
  boot,            \* history: the latest nvfbc::init() call
  binds,           \* history: nvFBCBindContext calls issued on this display_t
  releases,        \* history: nvFBCReleaseContext calls issued on this display_t
  pending          \* history: a capture session was created and no destroy-capture-session call issued since

vars == << pc, handle, cursor_visible, capture_params, delay, img, cursor,
           next_frame, now, x, info, status, created, destroyed, log, plog,
           pcursor, lastReinit, prevReinit, last, sinkCalls, okSnaps, iter,
           deadline0, captures, geometry, tracking, init_args, funcs_loaded,
           nvfbc_handle, func, boot, binds, releases, pending >>

\* ------------------------------------------------------------ the driver
\* A driver call: the entry point, the session handle passed, the outcome
\* ("logged" where the code only logs a failure and goes on either way).
Call(f, h, r) == [f |-> f, h |-> h, r |-> r]

Res(ok) == IF ok THEN "ok" ELSE "fail"

\* history: whether a capture session waits for its destroy-capture-session
\* call after `calls`, when p says whether one did before them
RECURSIVE Pending(_, _)
Pending(p, calls) ==
  IF calls = << >> THEN p
  ELSE Pending(CASE Head(calls).f = "nvFBCCreateCaptureSession" /\ Head(calls).r = "ok" -> TRUE
                 [] Head(calls).f = "nvFBCDestroyCaptureSession" -> FALSE
                 [] OTHER -> p,
               Tail(calls))

\* How many of `calls` went to entry point f.
Calls(calls, f) == Len(SelectSeq(calls, LAMBDA c : c.f = f))

RECURSIVE CountDestroy(_, _)
CountDestroy(calls, h) ==
  IF calls = << >> THEN 0
  ELSE (IF Head(calls).f = "nvFBCDestroyHandle" /\ Head(calls).h = h THEN 1 ELSE 0)
       + CountDestroy(Tail(calls), h)

\* The driver's ledger of destroy-handle calls after `calls` were issued.
Issued(calls) == [h \in 0..MaxHandles |-> destroyed[h] + CountDestroy(calls, h)]

\* ------------------------------------------------------------ bootstrap
\* What nvfbc::init() works on: its static funcs_loaded, the library handle
\* and the function table.
Unloaded == [funcs_loaded |-> FALSE, handle |-> "null", func |-> "unset"]

\* nvfbc::init() as it would be without the funcs_loaded short cut.
nvfbc_init_reloads(g, okOpen, okLoad, okInstance) ==
  LET open == IF g.handle = "null"
              THEN << Call("dyn::handle", 0, Res(okOpen)) >> ELSE << >>
      close == << Call("dlclose", 0, "ok") >>
  IN IF g.handle = "null" /\ ~okOpen
     THEN [g |-> g, ret |-> -1, calls |-> open]
     ELSE IF ~okLoad
     THEN [g |-> [g EXCEPT !.handle = "null"], ret |-> -1,
           calls |-> open \o << Call("dyn::load", 0, "fail") >> \o close]
     ELSE IF ~okInstance
     THEN [g |-> [g EXCEPT !.handle = "null"], ret |-> -1,
           calls |-> open \o << Call("dyn::load", 0, "ok"),
                                Call("NvFBCCreateInstance", 0, "fail") >> \o close]
     ELSE [g |-> [funcs_loaded |-> TRUE, handle |-> "lib", func |-> "set"], ret |-> 0,
           calls |-> open \o << Call("dyn::load", 0, "ok"),
                                Call("NvFBCCreateInstance", 0, "ok") >>]

\* nvfbc::init() as it would be if a failed NvFBCCreateInstance closed the
\* library and kept the stale handle.
nvfbc_init_keeps_handle(g, okOpen, okLoad, okInstance) ==
  LET open == IF g.handle = "null"
              THEN << Call("dyn::handle", 0, Res(okOpen)) >> ELSE << >>
      close == << Call("dlclose", 0, "ok") >>
  IN IF g.funcs_loaded
     THEN [g |-> g, ret |-> 0, calls |-> << >>]
     ELSE IF g.handle = "null" /\ ~okOpen
     THEN [g |-> g, ret |-> -1, calls |-> open]
     ELSE IF ~okLoad
     THEN [g |-> [g EXCEPT !.handle = "null"], ret |-> -1,
           calls |-> open \o << Call("dyn::load", 0, "fail") >> \o close]
     ELSE IF ~okInstance
     THEN [g |-> [g EXCEPT !.handle = "lib"], ret |-> -1,
           calls |-> open \o << Call("dyn::load", 0, "ok"),
                                Call("NvFBCCreateInstance", 0, "fail") >> \o close]
     ELSE [g |-> [funcs_loaded |-> TRUE, handle |-> "lib", func |-> "set"], ret |-> 0,
           calls |-> open \o << Call("dyn::load", 0, "ok"),
                                Call("NvFBCCreateInstance", 0, "ok") >>]

\* nvfbc::init(): open the library unless it is open, resolve
\* NvFBCCreateInstance, fill the function table; okOpen, okLoad and
\* okInstance are the outcomes of dyn::handle, dyn::load and createInstance.
nvfbc_init(g, okOpen, okLoad, okInstance) ==
  LET open == IF g.handle = "null"
              THEN << Call("dyn::handle", 0, Res(okOpen)) >> ELSE << >>
      close == << Call("dlclose", 0, "ok") >>
  IN IF g.funcs_loaded
     THEN [g |-> g, ret |-> 0, calls |-> << >>]
     ELSE IF g.handle = "null" /\ ~okOpen
     THEN [g |-> g, ret |-> -1, calls |-> open]
     ELSE IF ~okLoad
     THEN [g |-> [g EXCEPT !.handle = "null"], ret |-> -1,
           calls |-> open \o << Call("dyn::load", 0, "fail") >> \o close]
     ELSE IF ~okInstance
     THEN [g |-> [g EXCEPT !.handle = "null"], ret |-> -1,
           calls |-> open \o << Call("dyn::load", 0, "ok"),
                                Call("NvFBCCreateInstance", 0, "fail") >> \o close]
     ELSE [g |-> [funcs_loaded |-> TRUE, handle |-> "lib", func |-> "set"], ret |-> 0,
           calls |-> open \o << Call("dyn::load", 0, "ok"),
                                Call("NvFBCCreateInstance", 0, "ok") >>]

\* ------------------------------------------------------------- handle_t
NoFlags == [SESSION_HANDLE |-> FALSE, SESSION_CAPTURE |-> FALSE]

\* handle_t() = default: an empty bitset; the handle member holds no live
\* session (0 stands for whatever value it holds before nvFBCCreateHandle).
handle_default == [handle_flags |-> NoFlags, handle |-> 0]

\* stop() as it would be if a failed destroy-capture-session call still
\* cleared the flag.
stop_clears_on_failure(h, ok) ==
  IF ~h.handle_flags.SESSION_CAPTURE
  THEN [h |-> h, ret |-> 0, calls |-> << >>]
  ELSE [h |-> [h EXCEPT !.handle_flags.SESSION_CAPTURE = FALSE],
        ret |-> IF ok THEN 0 ELSE -1,
        calls |-> << Call("nvFBCDestroyCaptureSession", h.handle, Res(ok)) >>]

\* stop() as it would be if a failed destroy-capture-session call were only
\* logged: 0 is returned and the flag stays set.
stop_reports_success(h, ok) ==
  IF ~h.handle_flags.SESSION_CAPTURE
  THEN [h |-> h, ret |-> 0, calls |-> << >>]
  ELSE [h |-> IF ok THEN [h EXCEPT !.handle_flags.SESSION_CAPTURE = FALSE] ELSE h,
        ret |-> 0,
        calls |-> << Call("nvFBCDestroyCaptureSession", h.handle, Res(ok)) >>]

\* handle_t::stop(): what it leaves, what it returns, the driver calls it issued.
stop(h, ok) ==
  IF ~h.handle_flags.SESSION_CAPTURE
  THEN [h |-> h, ret |-> 0, calls |-> << >>]
  ELSE IF ~ok
       THEN [h |-> h, ret |-> -1,
             calls |-> << Call("nvFBCDestroyCaptureSession", h.handle, "fail") >>]
       ELSE [h |-> [h EXCEPT !.handle_flags.SESSION_CAPTURE = FALSE], ret |-> 0,
             calls |-> << Call("nvFBCDestroyCaptureSession", h.handle, "ok") >>]

\* reset() as it would be if a failed destroy-handle call were escalated:
\* an early return of -1 that leaves the handle flag set.
reset_escalates(h, okStop, okDestroy) ==
  IF ~h.handle_flags.SESSION_HANDLE
  THEN [h |-> h, ret |-> 0, calls |-> << >>]
  ELSE LET s == stop(h, okStop)
       IN [h |-> IF okDestroy THEN [s.h EXCEPT !.handle_flags.SESSION_HANDLE = FALSE]
                              ELSE s.h,
           ret |-> IF okDestroy THEN 0 ELSE -1,
           calls |-> s.calls \o << Call("nvFBCDestroyHandle", h.handle, Res(okDestroy)) >>]

\* handle_t::reset(): stop(), whose result is dropped, then destroy the handle.
reset(h, okStop, okDestroy) ==
  IF ~h.handle_flags.SESSION_HANDLE
  THEN [h |-> h, ret |-> 0, calls |-> << >>]
  ELSE LET s == stop(h, okStop)
       IN [h |-> [s.h EXCEPT !.handle_flags.SESSION_HANDLE = FALSE],
           ret |-> 0,
           calls |-> s.calls \o << Call("nvFBCDestroyHandle", h.handle, Res(okDestroy)) >>]

\* handle_t::capture(capture_params): create the capture session, then the
\* interop set-up (nvFBCToCudaSetUp, or nvFBCToSysSetUp under NVFBC_TOSYS).
handle_capture(h, okCreate, okSetup) ==
  IF ~okCreate
  THEN [h |-> h, ret |-> -1,
        calls |-> << Call("nvFBCCreateCaptureSession", h.handle, "fail") >>]
  ELSE [h |-> [h EXCEPT !.handle_flags.SESSION_CAPTURE = TRUE],
        ret |-> IF okSetup THEN 0 ELSE -1,
        calls |-> << Call("nvFBCCreateCaptureSession", h.handle, "ok"),
                     Call("nvFBCToCudaSetUp", h.handle, Res(okSetup)) >>]

\* The move constructor as it would be if it left other's flags set.
move_ctor_keeps_flags(other) ==
  [self |-> [handle_flags |-> other.handle_flags, handle |-> other.handle],
   other |-> other]

\* handle_t(handle_t &&other): copies flags and handle, clears other's flags.
move_ctor(other) ==
  [self |-> [handle_flags |-> other.handle_flags, handle |-> other.handle],
   other |-> [other EXCEPT !.handle_flags = NoFlags]]

\* handle_t::operator=(handle_t &&other): swaps flags and handle.
move_assign(self, other) == [self |-> other, other |-> self]

\* handle_t::make(): the local handle_t, moved into the optional that is
\* returned; the local is destroyed (reset()) when make() returns.
make(okCreate, id, okStop, okDestroy) ==
  LET local == IF okCreate
               THEN [handle_flags |-> [SESSION_HANDLE |-> TRUE, SESSION_CAPTURE |-> FALSE],
                     handle |-> id]
               ELSE handle_default
      mv == move_ctor(local)
      gone == reset(IF okCreate THEN mv.other ELSE local, okStop, okDestroy)
  IN [made |-> okCreate,
      opt |-> mv.self,
      calls |-> << Call("nvFBCCreateHandle", IF okCreate THEN id ELSE 0, Res(okCreate)) >>
                \o gone.calls]


\* ------------------------------------------------------------ display_t
\* NVFBC_CREATE_CAPTURE_SESSION_PARAMS { VER }: every other field zero.
ZeroParams == [bPushModel |-> FALSE, bWithCursor |-> FALSE, bAllowDirectCapture |-> FALSE]

\* The fields of capture_params that init writes, all zero.
ZeroTracking == [eTrackingType |-> "NVFBC_TRACKING_DEFAULT", dwOutputId |-> 0,
                 dwSamplingRateMs |-> 0]

ZeroGeometry == [width |-> 0, height |-> 0, offset_x |-> 0, offset_y |-> 0,
                 env_width |-> 0, env_height |-> 0]

\* std::make_shared<display_t>(): a value-initialised display_t.
NewDisplay ==
  [handle |-> handle_default, cursor_visible |-> FALSE,
   capture_params |-> ZeroParams, delay |-> 0,
   geometry |-> ZeroGeometry, tracking |-> ZeroTracking]

\* The driver's status (NVFBC_GET_STATUS_PARAMS).  Output i is one entry of
\* the outputs array; the boxes differ from one another and from the screen.
Output(i) == [dwId |-> 10 + i,
              trackedBox |-> [x |-> 3 * i, y |-> i, w |-> 3 + i, h |-> 2 + i]]

Screen == [w |-> 3 * (MaxOutputs + 2), h |-> MaxOutputs + 3]

Statuses ==
  { [bXRandRAvailable |-> xr, dwOutputNum |-> n,
     outputs |-> [i \in 0..(MaxOutputs + 1) |-> Output(i)], screenSize |-> Screen] :
    xr \in BOOLEAN, n \in 0..MaxOutputs }

\* A display_name: NoName is the empty string, {n} is a name for which
\* util::from_view yields n.
NoName == {}

Names == {NoName} \cup { {n} : n \in (-1)..(MaxOutputs + 1) }

\* init as it would be if the range check let the output count itself pass.
streamed_monitor_off_by_one(display_name, st) ==
  IF display_name = NoName THEN -1
  ELSE IF ~st.bXRandRAvailable THEN -1
  ELSE LET monitor_nr == CHOOSE n \in display_name : TRUE
       IN IF monitor_nr < 0 \/ monitor_nr > st.dwOutputNum THEN -1 ELSE monitor_nr

\* init(): streamedMonitor, the output to track or -1 for the whole desktop.
streamed_monitor(display_name, st) ==
  IF display_name = NoName THEN -1
  ELSE IF ~st.bXRandRAvailable THEN -1
  ELSE LET monitor_nr == CHOOSE n \in display_name : TRUE
       IN IF monitor_nr < 0 \/ monitor_nr >= st.dwOutputNum THEN -1 ELSE monitor_nr

\* init(): what it writes to the display once make() and status() succeeded.
place(d, display_name, framerate, st) ==
  LET streamedMonitor == streamed_monitor(display_name, st)
      output == st.outputs[streamedMonitor]
  IN [d EXCEPT
        !.delay = Second \div framerate,
        !.capture_params = ZeroParams,
        !.tracking =
           [eTrackingType |-> IF streamedMonitor # -1 THEN "NVFBC_TRACKING_OUTPUT"
                                                      ELSE "NVFBC_TRACKING_SCREEN",
            dwOutputId |-> IF streamedMonitor # -1 THEN output.dwId ELSE 0,
            dwSamplingRateMs |-> 1000 \div framerate],
        !.geometry =
           IF streamedMonitor # -1
           THEN [width |-> output.trackedBox.w, height |-> output.trackedBox.h,
                 offset_x |-> output.trackedBox.x, offset_y |-> output.trackedBox.y,
                 env_width |-> st.screenSize.w, env_height |-> st.screenSize.h]
           ELSE [d.geometry EXCEPT !.width = st.screenSize.w,
                                   !.height = st.screenSize.h,
                                   !.env_width = st.screenSize.w,
                                   !.env_height = st.screenSize.h]]

\* display_t::init(display_name, framerate) on display d; id is the handle
\* the driver would hand out.  The optional returned by make() is destroyed
\* when init returns, on every path.
init(d, display_name, framerate, id, st_params, okCreate, okStatus, okStop, okDestroy) ==
  LET m == make(okCreate, id, okStop, okDestroy)
      st == << Call("nvFBCGetStatus", id, Res(okStatus)) >>
      sw == move_assign(d.handle, m.opt)
  IN IF ~m.made
     THEN [ret |-> -1, d |-> d, calls |-> m.calls]
     ELSE IF ~okStatus
          THEN [ret |-> -1, d |-> d,
                calls |-> m.calls \o st \o reset(m.opt, okStop, okDestroy).calls]
          ELSE [ret |-> 0,
                d |-> [place(d, display_name, framerate, st_params) EXCEPT !.handle = sw.self],
                calls |-> m.calls \o st \o reset(sw.other, okStop, okDestroy).calls]

\* configure as it would be if the cursor branch forgot to switch direct
\* capture off.
configure_keeps_direct(p, c) ==
  IF c THEN [p EXCEPT !.bPushModel = FALSE, !.bWithCursor = TRUE]
       ELSE [p EXCEPT !.bPushModel = TRUE, !.bWithCursor = FALSE,
                      !.bAllowDirectCapture = TRUE]

\* configure as it would be if the no-cursor branch never switched direct
\* capture back on.
configure_direct_stays_off(p, c) ==
  IF c THEN [p EXCEPT !.bPushModel = FALSE, !.bWithCursor = TRUE,
                      !.bAllowDirectCapture = FALSE]
       ELSE [p EXCEPT !.bPushModel = TRUE, !.bWithCursor = FALSE]

\* reinit(cursor): the configuration it writes before creating the session.
configure(p, c) ==
  IF c THEN [p EXCEPT !.bPushModel = FALSE, !.bWithCursor = TRUE,
                      !.bAllowDirectCapture = FALSE]
       ELSE [p EXCEPT !.bPushModel = TRUE, !.bWithCursor = FALSE,
                      !.bAllowDirectCapture = TRUE]

\* reinit(): the configuration of the extra-copy method, after direct capture failed.
fallback_params(p) ==
  [p EXCEPT !.bPushModel = FALSE, !.bWithCursor = FALSE, !.bAllowDirectCapture = FALSE]

\* needs_reinit as it would be if a session without direct capture were
\* probed again on every snapshot.
needs_reinit_reprobes(c, visible) ==
  c # visible \/ (~c /\ ~capture_params.bAllowDirectCapture)

\* snapshot(): whether it calls reinit(cursor) first.
needs_reinit(c, visible) == c # visible

\* The switch as it would be if a reinit status were retried inside the loop.
dispatch_retries_reinit(st) ==
  CASE st = "reinit" -> "loop"
    [] st = "error" -> "unwind"
    [] st = "timeout" -> "loop"
    [] st = "ok" -> "sink"
    [] OTHER -> "unwind"

\* The switch as it would be if an ok frame went round the loop without the sink.
dispatch_skips_sink(st) ==
  CASE st = "reinit" -> "unwind"
    [] st = "error" -> "unwind"
    [] st = "timeout" -> "loop"
    [] st = "ok" -> "loop"
    [] OTHER -> "unwind"

\* capture(): the switch on snapshot()'s status; where the loop goes next.
dispatch(st) ==
  CASE st = "reinit" -> "unwind"
    [] st = "error" -> "unwind"
    [] st = "timeout" -> "loop"
    [] st = "ok" -> "sink"
    [] OTHER -> "unwind"

\* snapshot() as it would be if a failed grab were taken for a frame.
grab_status_swallows_error(r) ==
  CASE r = "ok" -> "ok"
    [] r = "recreate" -> "reinit"
    [] r = "copyfail" -> "error"
    [] OTHER -> "ok"

\* snapshot(): the status it returns for the outcome of the frame grab
\* ("copyfail": the grab succeeded and tex.copy failed, CUDA build).
grab_status(r) ==
  CASE r = "ok" -> "ok"
    [] r = "recreate" -> "reinit"
    [] OTHER -> "error"

\* reinit() as it would be if it probed whatever the configuration.
probes_always(p) == TRUE

\* reinit(): if(capture_params.bAllowDirectCapture), whether it probes.
probes_wanted(p) == p.bAllowDirectCapture

\* ctx_t as it would be with a destructor that releases nothing.
ctx_dtor_leaks(h) == << >>

\* ctx_t::ctx_t(handle): bind the context; a failure is only logged.
ctx_ctor(h) == << Call("nvFBCBindContext", h, "logged") >>

\* ctx_t::~ctx_t(): release the context; a failure is only logged.
ctx_dtor(h) == << Call("nvFBCReleaseContext", h, "logged") >>

\* capture() as it would be if the guard were disabled on the ok path.
guard_skips_ok(st) == st # "ok"

\* capture(): auto fg = util::fail_guard(...) is never disabled, so
\* handle.reset() runs whatever status is returned.
guard_runs(st) == TRUE

\* capture(): next_frame after the clock read `t` ended the wait
\* (next_frame = now + delay).
advance(deadline, t, d) == t + d

\* The reading of std::chrono::steady_clock at the entry of capture(): time
\* is counted from there.
Epoch == 0

\* The clock readings that can end the wait for `deadline` when the last
\* reading was `t`: the first reading that is not before the deadline.
Wakeups(deadline, t) ==
  LET lo == IF deadline > t THEN deadline ELSE t IN lo .. (lo + MaxLate)

\* history: the record of one handle_t method run on display_t::handle
\* (what ran, what it returned, the driver calls it issued, whether the method
\* run before it was the same one, and the flags before and after it)
Ran(op, r, before) ==
  [op |-> op, ret |-> r.ret, calls |-> r.calls, again |-> last.op = op,
   was |-> before.handle_flags, is |-> r.h.handle_flags]

NoOp == [op |-> "none", ret |-> 0, calls |-> << >>, again |-> FALSE,
         was |-> NoFlags, is |-> NoFlags]


\* ---------------------------------------------------------------- state
display == << handle, cursor_visible, capture_params, delay >>
locals == << img, cursor, next_frame, now, x, info >>
reinits == << lastReinit, prevReinit >>
counts == << sinkCalls, okSnaps, iter, deadline0, captures >>
placed == << geometry, tracking, init_args >>
bootstrap == << funcs_loaded, nvfbc_handle, func, boot >>
ctx == << binds, releases >>

\* The driver status of a machine with one output and XRandR.
Desktop ==
  [bXRandRAvailable |-> TRUE, dwOutputNum |-> 1,
   outputs |-> [i \in 0..(MaxOutputs + 1) |-> Output(i)], screenSize |-> Screen]

\* history: no display_t::init call yet / no nvfbc::init() call yet.  Of an
\* init call the name and the status are kept only when it succeeded, for as
\* long as the display lives.
NoInit == [called |-> FALSE, display_name |-> NoName, st |-> Desktop,
           loaded |-> FALSE, failed |-> "none", ret |-> 0]

NoBoot == [called |-> FALSE, ret |-> 0, calls |-> << >>, was |-> Unloaded,
           is |-> Unloaded, retry |-> FALSE]

\* nvfbc::init()'s state as the variables hold it.
Globals == [funcs_loaded |-> funcs_loaded, handle |-> nvfbc_handle, func |-> func]

\* history: the record of one nvfbc::init() call with result b (what it
\* returned, the calls it made, the globals before and after it, and whether
\* the call before it had failed)
Booted(b) ==
  [called |-> TRUE, ret |-> b.ret, calls |-> b.calls, was |-> Globals, is |-> b.g,
   retry |-> boot.called /\ boot.ret # 0]

\* No display_t exists and none was ever made.
NoDisplay ==
  /\ geometry = NewDisplay.geometry
  /\ tracking = NewDisplay.tracking
  /\ init_args = NoInit
  /\ binds = 0 /\ releases = 0 /\ pending = FALSE
  /\ pc = "none"
  /\ handle = NewDisplay.handle
  /\ cursor_visible = NewDisplay.cursor_visible
  /\ capture_params = NewDisplay.capture_params
  /\ delay = NewDisplay.delay
  /\ img = FALSE /\ cursor = FALSE /\ next_frame = 0 /\ now = 0
  /\ x = 0 /\ info = FALSE
  /\ status = "none"
  /\ created = 0
  /\ destroyed = [h \in 0..MaxHandles |-> 0]
  /\ log = << >> /\ plog = << >>
  /\ pcursor = {} /\ lastReinit = {} /\ prevReinit = {}
  /\ last = NoOp
  /\ sinkCalls = 0 /\ okSnaps = 0 /\ iter = 0 /\ deadline0 = 0 /\ captures = 0

\* The state at process start: nothing loaded, no display.
Init ==
  /\ NoDisplay
  /\ funcs_loaded = Unloaded.funcs_loaded
  /\ nvfbc_handle = Unloaded.handle
  /\ func = Unloaded.func
  /\ boot = NoBoot

\* The state once a first nvfbc::init() has succeeded, before any display
\* is made.
Loaded ==
  /\ NoDisplay
  /\ LET b == nvfbc_init(Unloaded, TRUE, TRUE, TRUE)
     IN /\ funcs_loaded = b.g.funcs_loaded
        /\ nvfbc_handle = b.g.handle
        /\ func = b.g.func
        /\ boot = [called |-> TRUE, ret |-> b.ret, calls |-> b.calls,
                   was |-> Unloaded, is |-> b.g, retry |-> FALSE]

\* platf::nvfbc_display(hwdevice_type, display_name, framerate): make a
\* display_t and init it; a display whose init fails is released at once.
\* The driver's status is there only when nvFBCGetStatus succeeded; no
\* capture session exists yet, so no stop() in here reaches the driver.
\* (A hwdevice_type other than cuda returns nullptr before anything is made.)
nvfbc_display_for(names, statuses) ==
  /\ pc = "none"
  /\ created < MaxHandles
  /\ \E display_name \in names, framerate \in 1..MaxRate,
        okCreate, okStatus, okDestroy \in BOOLEAN :
     \E st_params \in (IF okCreate /\ okStatus THEN statuses ELSE {Desktop}) :
       LET okStop == TRUE
           r == init(NewDisplay, display_name, framerate, created + 1, st_params,
                     okCreate, okStatus, okStop, okDestroy)
           gone == reset(r.d.handle, okStop, okDestroy)
           calls == IF r.ret = 0 THEN r.calls ELSE r.calls \o gone.calls
       IN /\ created' = IF okCreate THEN created + 1 ELSE created
          /\ destroyed' = Issued(calls)
          /\ log' = calls
          /\ IF r.ret = 0
             THEN /\ pc' = "ready"
                  /\ handle' = r.d.handle
                  /\ capture_params' = r.d.capture_params
                  /\ delay' = r.d.delay
                  /\ cursor_visible' = r.d.cursor_visible
                  /\ geometry' = r.d.geometry
                  /\ tracking' = r.d.tracking
                  /\ last' = [op |-> "assign", ret |-> 0, calls |-> << >>,
                              again |-> FALSE, was |-> NoFlags,
                              is |-> r.d.handle.handle_flags]
             ELSE /\ pc' = "none"
                  /\ UNCHANGED << display, last, geometry, tracking >>
          /\ init_args' = [called |-> TRUE,
                           display_name |-> IF r.ret = 0 THEN display_name ELSE NoName,
                           st |-> IF r.ret = 0 THEN st_params ELSE Desktop,
                           loaded |-> funcs_loaded,
                           failed |-> IF ~okCreate THEN "make"
                                      ELSE IF ~okStatus THEN "status" ELSE "none",
                           ret |-> r.ret]
  /\ plog' = << >>
  /\ status' = "none"
  /\ UNCHANGED << locals, pcursor, reinits, counts, bootstrap, ctx >>
  /\ UNCHANGED pending

\* nvfbc_display for any display_name, whatever status the driver reports.
nvfbc_display == nvfbc_display_for(Names, Statuses)

\* nvfbc_display for the whole desktop (an empty display_name).
nvfbc_display_desktop == nvfbc_display_for({NoName}, {Desktop})

\* nvfbc_display before nvfbc::init() succeeded: func holds no entry points
\* and the call through it may end the process.
NullCall ==
  /\ pc = "none"
  /\ func = "unset"
  /\ pc' = "crashed"
  /\ init_args' = [NoInit EXCEPT !.called = TRUE, !.failed = "make", !.ret = -1]
  /\ UNCHANGED << display, locals, status, created, destroyed, log, plog, pcursor,
                  reinits, last, counts, geometry, tracking, bootstrap, ctx >>
  /\ UNCHANGED pending

\* A call of cuda::nvfbc::init().
Bootstrap ==
  /\ pc = "none"
  /\ \E okOpen, okLoad, okInstance \in BOOLEAN :
       LET b == nvfbc_init(Globals, okOpen, okLoad, okInstance)
       IN /\ funcs_loaded' = b.g.funcs_loaded
          /\ nvfbc_handle' = b.g.handle
          /\ func' = b.g.func
          /\ boot' = Booted(b)
  /\ UNCHANGED << pc, display, locals, status, created, destroyed, log, plog,
                  pcursor, reinits, last, counts, placed, ctx >>
  /\ UNCHANGED pending

\* platf::nvfbc_display_names(): after the bootstrap, a session handle is
\* made to read the driver's status and destroyed when the function returns.
nvfbc_display_names ==
  /\ pc = "none"
  /\ created < MaxHandles
  /\ \E okCuda, okOpen, okLoad, okInstance, okCreate, okStatus, okStop, okDestroy \in BOOLEAN :
       LET b == nvfbc_init(Globals, okOpen, okLoad, okInstance)
           okBoot == okCuda /\ b.ret = 0
           m == make(okCreate, created + 1, okStop, okDestroy)
           calls == IF ~okBoot THEN << >>
                    ELSE IF ~m.made THEN m.calls
                    ELSE m.calls \o << Call("nvFBCGetStatus", created + 1, Res(okStatus)) >>
                                 \o reset(m.opt, okStop, okDestroy).calls
       IN /\ created' = IF okBoot /\ okCreate THEN created + 1 ELSE created
          /\ destroyed' = Issued(calls)
          /\ log' = calls
          /\ IF okCuda
             THEN /\ funcs_loaded' = b.g.funcs_loaded
                  /\ nvfbc_handle' = b.g.handle
                  /\ func' = b.g.func
                  /\ boot' = Booted(b)
             ELSE UNCHANGED bootstrap
  /\ plog' = << >>
  /\ UNCHANGED << pc, display, locals, status, pcursor, reinits, last, counts,
                  placed, ctx >>
  /\ UNCHANGED pending

\* capture(snapshot_cb, img, cursor), entry: next_frame is read from the
\* clock, cursor_visible is forced to differ from *cursor, the context is bound.
CaptureEnter ==
  /\ pc = "ready"
  /\ captures < MaxCaptures
  /\ \E i \in BOOLEAN, c \in BOOLEAN :
       /\ img' = i
       /\ cursor' = c
       /\ cursor_visible' = ~c
  /\ next_frame' = Epoch
  /\ now' = Epoch
  /\ deadline0' = Epoch
  /\ log' = ctx_ctor(handle.handle)
  /\ binds' = binds + Calls(ctx_ctor(handle.handle), "nvFBCBindContext")
  /\ pc' = "loop"
  /\ x' = 0 /\ info' = FALSE
  /\ plog' = << >>
  /\ pcursor' = {}
  /\ status' = "none"
  /\ sinkCalls' = 0 /\ okSnaps' = 0 /\ iter' = 0
  /\ captures' = captures + 1
  /\ UNCHANGED << handle, capture_params, delay, created, destroyed, reinits, last,
                  releases, placed, bootstrap >>
  /\ UNCHANGED pending

\* capture(): while(img) is false; fall out of the loop and return ok.
LoopExit ==
  /\ pc = "loop"
  /\ ~img
  /\ status' = "ok"
  /\ pc' = "unwind"
  /\ UNCHANGED << display, locals, created, destroyed, log, plog, pcursor,
                  reinits, last, counts >>
  /\ UNCHANGED << placed, bootstrap, ctx >>
  /\ UNCHANGED pending

\* capture(): wait until the clock passes next_frame, then move next_frame on.
Pace ==
  /\ pc = "loop"
  /\ img
  /\ \E t \in Wakeups(next_frame, now) :
       /\ now' = t
       /\ next_frame' = advance(next_frame, t, delay)
  /\ iter' = iter + 1
  /\ pc' = "snapshot"
  /\ UNCHANGED << display, img, cursor, x, info, status, created, destroyed,
                  log, plog, pcursor, reinits, last, sinkCalls, okSnaps,
                  deadline0, captures >>
  /\ UNCHANGED << placed, bootstrap, ctx >>
  /\ UNCHANGED pending

\* snapshot(img, 150ms, *cursor), entry: *cursor is read; reinit first when
\* it differs from cursor_visible.
SnapshotEnter ==
  /\ pc = "snapshot"
  /\ \E c \in BOOLEAN :
       /\ cursor' = c
       /\ pc' = IF needs_reinit(c, cursor_visible) THEN "reinit" ELSE "grab"
  /\ pcursor' = IF iter = 1 THEN {} ELSE {cursor}
  /\ plog' = log
  /\ log' = << >>
  /\ UNCHANGED << display, img, next_frame, now, x, info, status, created,
                  destroyed, reinits, last, counts >>
  /\ UNCHANGED << placed, bootstrap, ctx >>
  /\ UNCHANGED pending


\* snapshot() returns st to capture(), whose switch decides what follows.
Returns(st) ==
  /\ pc' = dispatch(st)
  /\ status' = IF dispatch(st) = "unwind" THEN st ELSE status
  /\ okSnaps' = IF st = "ok" THEN okSnaps + 1 ELSE okSnaps

\* reinit(cursor): stop the capture session; then record the cursor state
\* and write the configuration.
ReinitStop ==
  /\ pc = "reinit"
  /\ \E ok \in BOOLEAN :
       LET s == stop(handle, ok)
       IN /\ handle' = s.h
          /\ log' = log \o s.calls
          /\ last' = Ran("stop", s, handle)
          /\ IF s.ret # 0
             THEN /\ Returns("error")
                  /\ UNCHANGED << cursor_visible, capture_params >>
             ELSE /\ cursor_visible' = cursor
                  /\ capture_params' = configure(capture_params, cursor)
                  /\ pc' = "reinit_capture"
                  /\ UNCHANGED << status, okSnaps >>
  /\ prevReinit' = lastReinit
  /\ lastReinit' = {cursor}
  /\ UNCHANGED << delay, locals, created, destroyed, plog, pcursor,
                  sinkCalls, iter, deadline0, captures >>
  /\ UNCHANGED << placed, bootstrap, ctx >>
  /\ pending' = Pending(pending, SubSeq(log', Len(log) + 1, Len(log')))

\* reinit(): handle.capture(capture_params); probe when direct capture was asked for.
ReinitCapture ==
  /\ pc = "reinit_capture"
  /\ \E okCreate, okSetup \in BOOLEAN :
       LET c == handle_capture(handle, okCreate, okSetup)
       IN /\ handle' = c.h
          /\ log' = log \o c.calls
          /\ last' = Ran("capture", c, handle)
          /\ IF c.ret # 0
             THEN Returns("error")
             ELSE /\ pc' = IF probes_wanted(capture_params) THEN "probe" ELSE "grab"
                  /\ UNCHANGED << status, okSnaps >>
  /\ x' = 0
  /\ UNCHANGED << cursor_visible, capture_params, delay, img, cursor, next_frame,
                  now, info, created, destroyed, plog, pcursor, reinits,
                  sinkCalls, iter, deadline0, captures >>
  /\ UNCHANGED << placed, bootstrap, ctx >>
  /\ pending' = Pending(pending, SubSeq(log', Len(log) + 1, Len(log')))

\* reinit(): one pass of the probe loop, a grab that does not wait.
Probe ==
  /\ pc = "probe"
  /\ \E r \in {"direct", "nodirect", "recreate", "fail"} :
       /\ log' = log \o << Call("nvFBCToCudaGrabFrame", handle.handle, r) >>
       /\ CASE r = "recreate" ->
                 /\ Returns("reinit")
                 /\ UNCHANGED << x, info >>
            [] r = "fail" ->
                 /\ Returns("error")
                 /\ UNCHANGED << x, info >>
            [] r = "direct" ->
                 /\ info' = TRUE
                 /\ pc' = "grab"
                 /\ UNCHANGED << x, status, okSnaps >>
            [] r = "nodirect" ->
                 /\ info' = FALSE
                 /\ x' = x + 1
                 /\ pc' = IF x + 1 < ProbeAttempts THEN "probe" ELSE "fallback"
                 /\ UNCHANGED << status, okSnaps >>
  /\ UNCHANGED << display, img, cursor, next_frame, now, created, destroyed,
                  plog, pcursor, reinits, last, sinkCalls, iter, deadline0, captures >>
  /\ UNCHANGED << placed, bootstrap, ctx >>
  /\ UNCHANGED pending

\* reinit(): no probe grab was direct; write the extra-copy configuration,
\* stop the session and create it again.
Fallback ==
  /\ pc = "fallback"
  /\ capture_params' = fallback_params(capture_params)
  /\ \E okStop, okCreate, okSetup \in BOOLEAN :
       LET s == stop(handle, okStop)
           c == handle_capture(s.h, okCreate, okSetup)
       IN IF s.ret # 0
          THEN /\ handle' = s.h
               /\ log' = log \o s.calls
               /\ last' = Ran("stop", s, handle)
               /\ Returns("error")
          ELSE /\ handle' = c.h
               /\ log' = log \o s.calls \o c.calls
               /\ last' = [Ran("capture", c, s.h) EXCEPT !.again = FALSE]
               /\ IF c.ret # 0
                  THEN Returns("error")
                  ELSE /\ pc' = "grab"
                       /\ UNCHANGED << status, okSnaps >>
  /\ UNCHANGED << cursor_visible, delay, locals, created, destroyed, plog,
                  pcursor, reinits, sinkCalls, iter, deadline0, captures >>
  /\ UNCHANGED << placed, bootstrap, ctx >>
  /\ pending' = Pending(pending, SubSeq(log', Len(log) + 1, Len(log')))

\* snapshot(): the frame grab, and under the CUDA build the copy into the
\* image's texture ("copyfail": the grab succeeded and tex.copy failed).
Grab ==
  /\ pc = "grab"
  /\ \E r \in {"ok", "recreate", "fail", "copyfail"} :
       /\ log' = log \o << Call("nvFBCToCudaGrabFrame", handle.handle, r) >>
       /\ Returns(grab_status(r))
  /\ UNCHANGED << display, locals, created, destroyed, plog, pcursor, reinits,
                  last, sinkCalls, iter, deadline0, captures >>
  /\ UNCHANGED << placed, bootstrap, ctx >>
  /\ UNCHANGED pending

\* capture(): img = snapshot_cb(img); a null img ends the loop.
Sink ==
  /\ pc = "sink"
  /\ \E n \in (IF sinkCalls + 1 >= MaxFrames THEN {FALSE} ELSE BOOLEAN) :
       /\ img' = n
       /\ log' = log \o << Call("snapshot_cb", 0, IF n THEN "img" ELSE "null") >>
  /\ sinkCalls' = sinkCalls + 1
  /\ pc' = "loop"
  /\ UNCHANGED << display, cursor, next_frame, now, x, info, status, created,
                  destroyed, plog, pcursor, reinits, last, okSnaps, iter,
                  deadline0, captures >>
  /\ UNCHANGED << placed, bootstrap, ctx >>
  /\ UNCHANGED pending

\* capture() returns: the fail_guard runs handle.reset(), then ~ctx_t
\* releases the context (locals are destroyed in reverse order).
Unwind ==
  /\ pc = "unwind"
  /\ \E okStop, okDestroy \in BOOLEAN :
       LET r == reset(handle, okStop, okDestroy)
           bye == ctx_dtor(handle.handle)
       IN /\ IF guard_runs(status)
             THEN /\ handle' = r.h
                  /\ destroyed' = Issued(r.calls)
                  /\ last' = Ran("reset", r, handle)
                  /\ log' = log \o r.calls \o bye
             ELSE /\ log' = log \o bye
                  /\ UNCHANGED << handle, destroyed, last >>
          /\ releases' = releases + Calls(bye, "nvFBCReleaseContext")
  /\ pc' = "ready"
  /\ img' = FALSE /\ next_frame' = 0 /\ now' = 0 /\ x' = 0 /\ info' = FALSE
  /\ plog' = << >> /\ pcursor' = {}
  /\ UNCHANGED << cursor_visible, capture_params, delay, cursor, status, created,
                  reinits, counts, binds, placed, bootstrap >>
  /\ pending' = Pending(pending, SubSeq(log', Len(log) + 1, Len(log')))

\* The display_t is released: ~handle_t runs reset().
DestroyDisplay ==
  /\ pc = "ready"
  /\ \E okStop, okDestroy \in BOOLEAN :
       LET r == reset(handle, okStop, okDestroy)
       IN /\ destroyed' = Issued(r.calls)
          /\ last' = Ran("reset", r, handle)
          /\ log' = r.calls
  /\ pc' = "none"
  /\ handle' = NewDisplay.handle
  /\ cursor_visible' = NewDisplay.cursor_visible
  /\ capture_params' = NewDisplay.capture_params
  /\ delay' = NewDisplay.delay
  /\ cursor' = FALSE
  /\ status' = "none"
  /\ plog' = << >> /\ pcursor' = {} /\ lastReinit' = {} /\ prevReinit' = {}
  /\ sinkCalls' = 0 /\ okSnaps' = 0 /\ iter' = 0 /\ deadline0' = 0 /\ captures' = 0
  /\ geometry' = NewDisplay.geometry
  /\ tracking' = NewDisplay.tracking
  /\ binds' = 0 /\ releases' = 0
  /\ init_args' = NoInit
  /\ UNCHANGED << img, next_frame, now, x, info, created, bootstrap >>
  /\ pending' = FALSE

\* The frame pump: displays of the whole desktop, made after the bootstrap.
Next ==
  \/ nvfbc_display_desktop
  \/ CaptureEnter
  \/ LoopExit
  \/ Pace
  \/ SnapshotEnter
  \/ ReinitStop
  \/ ReinitCapture
  \/ Probe
  \/ Fallback
  \/ Grab
  \/ Sink
  \/ Unwind
  \/ DestroyDisplay

Spec == Loaded /\ [][Next]_vars

\* Bootstrap, enumeration and the making of displays, from process start.
NextCreate ==
  \/ Bootstrap
  \/ nvfbc_display_names
  \/ nvfbc_display
  \/ NullCall
  \/ DestroyDisplay

SpecCreate == Init /\ [][NextCreate]_vars


\* ------------------------------------------------------------ properties
HandleCreated(f) == f.SESSION_HANDLE
CaptureActive(f) == f.SESSION_CAPTURE

\* C1: reset() is idempotent and never fails.  Every reset() returns 0,
\* whatever the driver answered to the destroy-capture-session and
\* destroy-handle calls; and a reset() that runs right after another reset()
\* of the same handle_t issues no driver call and leaves both flags as the
\* first one left them.
C1_ResetIdempotent ==
  last.op = "reset" =>
    /\ last.ret = 0
    /\ ~HandleCreated(last.is)
    /\ last.again => (last.calls = << >> /\ last.is = last.was)

\* C1 witness: a second reset() in a row, on a handle whose capture session
\* the first reset() failed to destroy.
C1_Witness ==
  /\ pc = "ready"
  /\ last.op = "reset" /\ last.again
  /\ CaptureActive(handle.handle_flags)
  /\ destroyed[handle.handle] = 1

\* C2: nvFBCDestroyHandle is issued at most once for every session handle,
\* and exactly once for each handle made by the time no handle_t is left
\* (no display_t exists and no function holds a temporary).
C2_DestroyedOnce ==
  /\ \A h \in 1..MaxHandles :
       /\ destroyed[h] <= 1
       /\ (h > created => destroyed[h] = 0)
       /\ (pc = "none" /\ h <= created => destroyed[h] = 1)
  /\ destroyed[0] = 0

\* C2 witness: two handles made and destroyed, the second one by a display_t
\* that ran capture() before it was released.
C2_Witness ==
  /\ pc = "none"
  /\ created = 2
  /\ destroyed[1] = 1 /\ destroyed[2] = 1
  /\ last.op = "reset" /\ last.again

\* C3: stop() with no active capture session issues no driver call, returns
\* 0 and changes nothing; with an active one it issues exactly one
\* destroy-capture-session call, and then clears the flag and returns 0 when
\* the driver succeeded, returns -1 with the flag still set when it failed.
C3_Stop ==
  last.op = "stop" =>
    IF ~CaptureActive(last.was)
    THEN last.calls = << >> /\ last.ret = 0 /\ last.is = last.was
    ELSE /\ Len(last.calls) = 1
         /\ last.calls[1].f = "nvFBCDestroyCaptureSession"
         /\ HandleCreated(last.is) = HandleCreated(last.was)
         /\ IF last.calls[1].r = "ok"
            THEN last.ret = 0 /\ ~CaptureActive(last.is)
            ELSE last.ret = -1 /\ CaptureActive(last.is)

\* C3 witness: stop() on an active session that the driver refused to destroy.
C3_Witness ==
  /\ last.op = "stop"
  /\ CaptureActive(last.was)
  /\ last.ret = -1

\* C3, the other cases: stop() with nothing to stop, and a stop() that succeeded.
C3_WitnessNoop == last.op = "stop" /\ ~CaptureActive(last.was) /\ pc = "reinit_capture"
C3_WitnessOk == last.op = "stop" /\ CaptureActive(last.was) /\ last.ret = 0


\* --- the history logs
Grab_f == "nvFBCToCudaGrabFrame"

\* how many calls of `l` are calls of f with outcome r
RECURSIVE Count(_, _, _)
Count(l, f, r) ==
  IF l = << >> THEN 0
  ELSE (IF Head(l).f = f /\ Head(l).r = r THEN 1 ELSE 0) + Count(Tail(l), f, r)

\* how many calls of `l` are calls of f
RECURSIVE CountF(_, _)
CountF(l, f) ==
  IF l = << >> THEN 0
  ELSE (IF Head(l).f = f THEN 1 ELSE 0) + CountF(Tail(l), f)

\* the calls of `l` after its i-th
After(l, i) == SubSeq(l, i + 1, Len(l))

\* the calls of `l` after its last probe grab that reported "nodirect"
RECURSIVE AfterProbes(_)
AfterProbes(l) ==
  IF Count(l, Grab_f, "nodirect") = 0 THEN l ELSE AfterProbes(Tail(l))

Teardown == {"nvFBCDestroyCaptureSession", "nvFBCDestroyHandle", "nvFBCReleaseContext"}

DirectPush == [bPushModel |-> TRUE, bWithCursor |-> FALSE, bAllowDirectCapture |-> TRUE]
CopyPull == [bPushModel |-> FALSE, bWithCursor |-> FALSE, bAllowDirectCapture |-> FALSE]

\* the places of pc inside reinit()
InReinit == {"reinit", "reinit_capture", "probe", "fallback"}

\* the current snapshot() call ran reinit(), and reinit() returned ok
ReinitReturnedOk == pc = "grab" /\ log # << >>

\* C4: in every state of a display session, before, inside and after every
\* reinit whatever it returns, a configuration with the cursor composited
\* does not allow direct capture.
C4_CursorExcludesDirect ==
  capture_params.bWithCursor => ~capture_params.bAllowDirectCapture

\* C4 witness: reinit(cursor=true) has written its configuration over the
\* one a reinit(cursor=false) with direct capture left behind.
C4_Witness ==
  /\ pc = "reinit_capture"
  /\ capture_params.bWithCursor
  /\ prevReinit = {FALSE} /\ lastReinit = {TRUE}
  /\ Count(plog, Grab_f, "direct") = 1

\* C5: a reinit(cursor=false) that returns ok right after a
\* reinit(cursor=true), like the first reinit(cursor=false) of a display,
\* ends with direct capture allowed and push delivery whenever a probe grab
\* reported direct capture; it ends otherwise only after all of its probe
\* grabs reported "not direct".
C5_DirectRestored ==
  (ReinitReturnedOk /\ lastReinit = {FALSE} /\ prevReinit \in {{}, {TRUE}}) =>
    IF Count(log, Grab_f, "direct") > 0
    THEN capture_params = DirectPush
    ELSE Count(log, Grab_f, "nodirect") = ProbeAttempts

\* C5 witness: reinit(true), then reinit(false) whose second probe grab was direct.
C5_Witness ==
  /\ ReinitReturnedOk
  /\ prevReinit = {TRUE} /\ lastReinit = {FALSE}
  /\ Count(log, Grab_f, "nodirect") = 1
  /\ Count(log, Grab_f, "direct") = 1
  /\ capture_params = DirectPush

C7_MustRecreateReturns ==
  \A i \in 1..Len(log) :
    (log[i].f = Grab_f /\ log[i].r = "recreate") =>
      /\ pc \in {"unwind", "ready"}
      /\ status = "reinit"
      /\ \A j \in (i + 1)..Len(log) : log[j].f \in Teardown

\* C7 witness: capture() has returned after a probe grab, the second of its
\* reinit, reported "must recreate".
C7_Witness ==
  /\ pc = "ready"
  /\ status = "reinit"
  /\ Count(log, Grab_f, "nodirect") = 1
  /\ Count(log, Grab_f, "recreate") = 1

\* C7, the other case: the frame grab reported "must recreate".
C7_WitnessFrame ==
  /\ pc = "ready"
  /\ status = "reinit"
  /\ log[1].f = Grab_f /\ log[1].r = "recreate"

\* C8: the sink has been invoked once for every snapshot that returned ok
\* (the latest one is on its way to the sink at "sink") and never otherwise;
\* after the sink returned a null buffer capture() returns ok, with no grab
\* and no sink call after the null.
C8_SinkOncePerFrame ==
  /\ okSnaps = sinkCalls + (IF pc = "sink" THEN 1 ELSE 0)
  /\ okSnaps <= iter
  /\ \A i \in 1..Len(log) :
       (log[i].f = "snapshot_cb" /\ log[i].r = "null") =>
         /\ pc \in {"loop", "unwind", "ready"}
         /\ ~img
         /\ pc # "loop" => status = "ok"
         /\ \A j \in (i + 1)..Len(log) : log[j].f \in Teardown

\* C8 witness: the sink returned null on its third invocation and capture()
\* returned ok after three sink invocations.
C8_Witness ==
  /\ pc = "ready"
  /\ status = "ok"
  /\ sinkCalls = 3 /\ okSnaps = 3
  /\ Count(log, "snapshot_cb", "null") = 1


\* the places of pc inside the frame pump loop, a deadline having been set
InLoop == {"snapshot", "reinit", "reinit_capture", "probe", "fallback", "grab",
           "sink", "loop", "unwind"}

\* C9 (as claimed): after N iterations of the frame pump loop next_frame is
\* the initial deadline plus N frame intervals, however late the thread woke.
C9_DeadlineOnGrid ==
  pc \in InLoop => next_frame = deadline0 + iter * delay

\* What the code keeps instead: the deadline is one frame interval past the
\* clock reading that ended the wait, so it is never before the grid and
\* every late wake-up moves all later deadlines.
C9_DeadlineFollowsClock ==
  (pc \in InLoop /\ iter > 0) =>
    /\ next_frame = now + delay
    /\ next_frame >= deadline0 + iter * delay
    /\ next_frame <= deadline0 + iter * (delay + MaxLate)

\* A deadline that has left the grid: the thread woke late once in two iterations.
C9_Drifted ==
  /\ pc = "snapshot" /\ iter = 2
  /\ next_frame = deadline0 + iter * delay + 1

\* the places of pc inside capture(), from the bind to the return
InCapture == InLoop

\* C11: every capture() binds the driver context once, at its entry and
\* before any other driver call of that capture(), and releases it once on
\* its way out whatever status it returns; so the binds of a display equal
\* its releases whenever no capture() is running, and exceed them by one
\* while one is.
C11_ContextBalanced ==
  /\ binds = captures
  /\ pc \in InCapture => binds = releases + 1
  /\ pc \notin InCapture => binds = releases
  /\ (pc = "loop" /\ iter = 0) => log = ctx_ctor(handle.handle)
  /\ pc \in InCapture =>
        /\ Calls(log, "nvFBCReleaseContext") = 0
        /\ \A i \in 2..Len(log) : log[i].f # "nvFBCBindContext"
  /\ (pc = "ready" /\ status # "none") =>
        /\ Calls(log, "nvFBCReleaseContext") = 1
        /\ log[Len(log)].f = "nvFBCReleaseContext"

\* A second capture() on one display has returned an error; both were
\* bound and released.
C11_Witness ==
  /\ pc = "ready" /\ status = "error"
  /\ captures = 2 /\ binds = 2 /\ releases = 2

\* ------------------------------------------- properties of SpecCreate
\* the display that exists was placed on output i of the status init read
OnOutput(i) ==
  LET o == init_args.st.outputs[i]
  IN /\ tracking.eTrackingType = "NVFBC_TRACKING_OUTPUT"
     /\ tracking.dwOutputId = o.dwId
     /\ geometry.width = o.trackedBox.w /\ geometry.height = o.trackedBox.h
     /\ geometry.offset_x = o.trackedBox.x /\ geometry.offset_y = o.trackedBox.y

\* the display that exists was placed on the whole virtual desktop
OnDesktop ==
  /\ tracking.eTrackingType = "NVFBC_TRACKING_SCREEN"
  /\ geometry.width = init_args.st.screenSize.w
  /\ geometry.height = init_args.st.screenSize.h
  /\ geometry.offset_x = 0 /\ geometry.offset_y = 0

\* the environment size of the display that exists is the virtual desktop's
EnvIsDesktop ==
  /\ geometry.env_width = init_args.st.screenSize.w
  /\ geometry.env_height = init_args.st.screenSize.h

\* the selector init was given names an output the status reports
SelectorInRange ==
  \E i \in init_args.display_name : i >= 0 /\ i < init_args.st.dwOutputNum

\* C12 (as claimed): a selector that is an index in [0, outputCount) gives
\* single-output tracking with that output's region, whatever else the
\* driver status says; an empty or out-of-range selector gives the whole
\* desktop; the environment size is the desktop's in both cases.
C12_SelectorAlone ==
  pc = "ready" =>
    /\ IF SelectorInRange
       THEN OnOutput(CHOOSE i \in init_args.display_name : TRUE)
       ELSE OnDesktop
    /\ EnvIsDesktop

\* C12 (amended): init tracks a single output only if the selector is an
\* index in [0, outputCount) and the driver status reports XRandR available;
\* it then takes width, height and offset from that output's region.  With
\* an empty or out-of-range selector, or without XRandR, it tracks the whole
\* desktop with the desktop's size.  It returns success exactly when the
\* handle was made and the status read, whatever the selector, and the
\* environment size is the desktop's in every case.
C12_Placement ==
  /\ init_args.called => (init_args.ret = 0 <=> init_args.failed = "none")
  /\ pc = "ready" =>
       /\ init_args.called /\ init_args.ret = 0
       /\ IF SelectorInRange /\ init_args.st.bXRandRAvailable
          THEN OnOutput(CHOOSE i \in init_args.display_name : TRUE)
          ELSE OnDesktop
       /\ EnvIsDesktop

\* A display made for selector 1 of two outputs tracks the second output.
C12_Witness ==
  /\ pc = "ready"
  /\ init_args.display_name = {1} /\ init_args.st.dwOutputNum = 2
  /\ OnOutput(1) /\ geometry.offset_x = 3 /\ ~OnDesktop

\* A display made for an out-of-range selector tracks the desktop.
C12_WitnessOutOfRange ==
  /\ pc = "ready"
  /\ init_args.display_name = {2} /\ init_args.st.dwOutputNum = 2
  /\ init_args.st.bXRandRAvailable
  /\ OnDesktop

\* ------------------------------------------------- properties of Spec
\* the i-th call of the log is the stop() of the reset() that ends capture():
\* of the destroy-capture-session calls only that one is followed by the
\* destroy-handle call
ByReset(i) ==
  /\ log[i].f = "nvFBCDestroyCaptureSession"
  /\ i < Len(log)
  /\ log[i + 1].f = "nvFBCDestroyHandle"

\* the driver calls reinit() and snapshot() make
SessionCalls == {"nvFBCDestroyCaptureSession", "nvFBCCreateCaptureSession",
                 "nvFBCToCudaSetUp", Grab_f}

\* the i-th call of the log is a call of reinit() or snapshot() that failed
\* with a code other than must-recreate (or the copy after the grab failed)
FailedAt(i) ==
  /\ log[i].f \in SessionCalls
  /\ log[i].r \in {"fail", "copyfail"}
  /\ ~ByReset(i)

\* C13: a driver call that fails inside reinit() or snapshot() (stopping the
\* previous session, creating the session, the interop set-up, a grab with
\* a code other than must-recreate) makes that capture() return error: the
\* snapshot ends at once with status error, the loop is left, and neither
\* the sink nor another session call follows the failure.
C13_FailureIsError ==
  \A i \in 1..Len(log) :
    (pc \in InCapture \cup {"ready"} /\ FailedAt(i)) =>
      /\ status = "error"
      /\ pc \in {"unwind", "ready"}
      /\ \A j \in (i + 1)..Len(log) :
           /\ log[j].f # "snapshot_cb"
           /\ log[j].f \in Teardown

\* capture() returned error after the re-creation of the session failed in
\* the fallback of reinit().
C13_Witness ==
  /\ pc = "ready" /\ status = "error"
  /\ Count(log, Grab_f, "nodirect") = 3
  /\ Count(log, "nvFBCCreateCaptureSession", "fail") = 1
  /\ CountF(log, "snapshot_cb") = 0

\* ------------------------------------------- properties of SpecCreate
\* the calls of a nvfbc::init() that goes through the whole load
FullLoad == << Call("dyn::handle", 0, "ok"), Call("dyn::load", 0, "ok"),
               Call("NvFBCCreateInstance", 0, "ok") >>

\* C14: once nvfbc::init() has succeeded, every later call returns success
\* at once: it opens no library, resolves no symbol, does not call
\* create-instance, and leaves the function table and the other globals as
\* they were; a successful bootstrap is never undone.
C14_BootIdempotent ==
  /\ (boot.called /\ boot.was.funcs_loaded) =>
       /\ boot.ret = 0
       /\ boot.calls = << >>
       /\ boot.is = boot.was
  /\ funcs_loaded => (func = "set" /\ nvfbc_handle = "lib")
  /\ (boot.called /\ boot.ret = 0) => funcs_loaded

\* nvfbc::init() was called when the bindings were already loaded.
C14_Witness ==
  /\ boot.called /\ boot.was.funcs_loaded
  /\ funcs_loaded /\ func = "set"

\* C15: a nvfbc::init() that fails, at the library open, the symbol load or
\* create-instance, returns an error and leaves the library handle null and
\* the loaded flag false; so whenever the bindings are not loaded the handle
\* is null, and the next call starts again at the library open and succeeds
\* if all three steps do.
C15_FailedBootLeavesNothing ==
  /\ (boot.called /\ boot.ret # 0) =>
       /\ boot.ret = -1
       /\ boot.is.handle = "null" /\ ~boot.is.funcs_loaded
       /\ boot.calls # << >>
       /\ \E i \in 1..Len(boot.calls) : boot.calls[i].r = "fail"
  /\ ~funcs_loaded => nvfbc_handle = "null"
  /\ (boot.called /\ ~boot.was.funcs_loaded) =>
       /\ boot.calls[1].f = "dyn::handle"
       /\ (boot.ret = 0 <=> boot.calls = FullLoad)
       /\ (boot.ret # 0 <=> boot.calls[Len(boot.calls)].f \in {"dyn::handle", "dlclose"})

\* A nvfbc::init() failed at create-instance (the library was closed again),
\* and nothing is loaded.
C15_Witness ==
  /\ boot.called /\ boot.ret = -1
  /\ Calls(boot.calls, "NvFBCCreateInstance") = 1
  /\ Calls(boot.calls, "dlclose") = 1
  /\ ~funcs_loaded /\ nvfbc_handle = "null"

\* After a failed nvfbc::init() the next one went through the whole load
\* and succeeded.
C15_WitnessRetry ==
  /\ boot.called /\ boot.retry /\ boot.ret = 0
  /\ boot.calls = FullLoad /\ funcs_loaded

\* C16 (as claimed): no driver call of nvfbc_display / display_t::init
\* (create handle, get status) is made through the function table before a
\* nvfbc::init() has succeeded: every init call runs with the bindings loaded.
C16_BootBeforeDisplay ==
  init_args.called => init_args.loaded

\* What the code keeps instead: the bindings are loaded only by a
\* nvfbc::init() that went through the whole load, and nvfbc_display leaves
\* them as they are, loaded or not.
C16_OnlyInitLoads ==
  /\ funcs_loaded => (boot.called /\ boot.is.funcs_loaded)
  /\ (pc = "ready" /\ ~init_args.loaded /\ ~boot.called) => func = "unset"

\* A display exists that was made through a function table never filled.
C16_Unbound ==
  /\ pc = "ready" /\ ~boot.called /\ func = "unset"
  /\ log[1].f = "nvFBCCreateHandle"

\* ------------------------------------------------- properties of Spec
\* C17 (as claimed): in a capture() entered with a frame buffer the first
\* snapshot() runs reinit() before its frame grab, whatever the cursor flag
\* holds: when the first iteration is at its grab, or past it at the sink,
\* a capture session has been created in that snapshot().
C17_FirstSnapshotReinits ==
  (iter = 1 /\ pc \in {"grab", "sink"}) =>
    Count(log, "nvFBCCreateCaptureSession", "ok") >= 1

\* The first snapshot() of the first capture() of a display is at its grab
\* with no reinit() run: *cursor read by snapshot() differs from *cursor read
\* at the entry, and no capture session exists.
C17_GrabWithoutSession ==
  /\ iter = 1 /\ pc = "grab" /\ captures = 1
  /\ log = << >>
  /\ ~CaptureActive(handle.handle_flags)

\* What the code keeps: the first snapshot() runs reinit() if *cursor is
\* then what it was at the entry of capture(); a first grab without reinit()
\* finds cursor_visible equal to the flag as read by snapshot().
C17_ReinitUnlessFlipped ==
  (iter = 1 /\ pc = "grab" /\ log = << >>) => cursor_visible = cursor

\* C18: no capture session is created while one is active: reinit() comes
\* to handle.capture() only past a stop() that returned 0, so at every
\* create-capture-session call the capture flag of the handle is clear.
C18_CreateWhenInactive ==
  /\ pc = "reinit_capture" => ~CaptureActive(handle.handle_flags)
  /\ last.op = "capture" =>
       /\ ~CaptureActive(last.was)
       /\ last.calls[1].f = "nvFBCCreateCaptureSession"
       /\ \A i \in 2..Len(last.calls) : last.calls[i].f # "nvFBCCreateCaptureSession"

\* In one snapshot() a running session was stopped and a new one created.
C18_Witness ==
  /\ last.op = "capture" /\ last.ret = 0
  /\ pc \in {"probe", "grab"}
  /\ Len(log) >= 2
  /\ log[1] = Call("nvFBCDestroyCaptureSession", handle.handle, "ok")
  /\ log[2] = Call("nvFBCCreateCaptureSession", handle.handle, "ok")
  /\ CaptureActive(handle.handle_flags)

\* the places of pc in reinit() past the writing of the configuration, and
\* the grab of a snapshot() whose reinit() returned ok
PastConfigure ==
  \/ pc \in {"reinit_capture", "probe", "fallback"}
  \/ ReinitReturnedOk

C19_WitnessCursor ==
  /\ ReinitReturnedOk /\ lastReinit = {TRUE}
  /\ Count(log, "nvFBCCreateCaptureSession", "ok") = 1
  /\ CountF(log, Grab_f) = 0

\* C20: whatever capture() returns (ok, reinit or error), handle.reset() has
\* run by the time it returns: the handle is no longer created, a handle
\* that was created at the exit was destroyed with one destroy-handle call,
\* and the capture flag is clear whenever the destroy-capture-session call
\* of that reset() succeeded.
C20_ResetOnReturn ==
  (pc = "ready" /\ status # "none") =>
    /\ status \in {"ok", "reinit", "error"}
    /\ last.op = "reset" /\ last.ret = 0
    /\ ~HandleCreated(handle.handle_flags)
    /\ HandleCreated(last.was) <=> CountF(last.calls, "nvFBCDestroyHandle") = 1
    /\ Count(last.calls, "nvFBCDestroyCaptureSession", "ok") > 0 =>
         ~CaptureActive(handle.handle_flags)

\* capture() returned ok with a session running; the reset() of its exit
\* stopped the session and destroyed the handle.
C20_Witness ==
  /\ pc = "ready" /\ status = "ok"
  /\ last.op = "reset"
  /\ HandleCreated(last.was) /\ CaptureActive(last.was)
  /\ handle.handle_flags = NoFlags

\* capture() returned reinit and the destroy-capture-session call of the
\* exit failed: the handle is destroyed, the capture flag is still set.
C20_WitnessStopFailed ==
  /\ pc = "ready" /\ status = "reinit"
  /\ Count(last.calls, "nvFBCDestroyCaptureSession", "fail") = 1
  /\ ~HandleCreated(handle.handle_flags) /\ CaptureActive(handle.handle_flags)

\* C21 (as claimed): once nvFBCDestroyHandle has been issued for a session
\* handle no further driver call is issued with it: in the calls of one
\* snapshot() and of the exit of capture() none follows the destroy-handle
\* call of its handle (so the context release precedes it), and no call made
\* inside a capture() carries a handle the driver was already asked to
\* destroy (so a second capture() does not use a destroyed handle).
C21_NoCallAfterDestroy ==
  /\ \A i \in 1..Len(log) : \A j \in (i + 1)..Len(log) :
       log[i].f = "nvFBCDestroyHandle" =>
         (log[j].f = "snapshot_cb" \/ log[j].h # log[i].h)
  /\ pc \in InCapture =>
       \A i \in 1..Len(log) :
         log[i].f # "snapshot_cb" => destroyed[log[i].h] = 0

\* What the code does at the exit of capture(): the guard's reset() runs
\* before ~ctx_t, so where the handle was still created the destroy-handle
\* call comes first and the context release, with the same handle, last.
C21_ExitOrder ==
  (pc = "ready" /\ status # "none" /\ HandleCreated(last.was)) =>
    /\ Len(log) >= 2
    /\ log[Len(log) - 1].f = "nvFBCDestroyHandle"
    /\ log[Len(log)] = Call("nvFBCReleaseContext", log[Len(log) - 1].h, "logged")

\* The first capture() of a display has returned: its last two driver calls
\* are the destroy-handle call and then the context release on that handle.
C21_ReleaseAfterDestroy ==
  /\ pc = "ready" /\ status = "ok" /\ captures = 1
  /\ Len(log) >= 2
  /\ log[Len(log) - 1].f = "nvFBCDestroyHandle"
  /\ log[Len(log)].f = "nvFBCReleaseContext"
  /\ log[Len(log)].h = log[Len(log) - 1].h

\* A second capture() on the display has created a capture session on the
\* handle its first capture() destroyed.
C21_SecondCaptureOnDestroyed ==
  /\ captures = 2 /\ pc = "grab"
  /\ destroyed[handle.handle] = 1
  /\ Count(log, "nvFBCCreateCaptureSession", "ok") = 1
  /\ log[1].h = handle.handle

\* C22 (as claimed): in every state of the display's handle_t the capture
\* flag implies the handle flag, whatever the driver answered in capture(),
\* stop() and reset().
C22_CaptureImpliesHandle ==
  CaptureActive(handle.handle_flags) => HandleCreated(handle.handle_flags)

\* What the code keeps: the capture flag is set without the handle flag only
\* on a handle for which the destroy-handle call has been issued.
C22_OnlyOnceDestroyed ==
  (CaptureActive(handle.handle_flags) /\ ~HandleCreated(handle.handle_flags)) =>
    /\ pc # "none"
    /\ destroyed[handle.handle] = 1

\* The reset() at the exit of the first capture() got a failure from the
\* destroy-capture-session call: handle flag clear, capture flag set.
C22_StaleCaptureFlag ==
  /\ pc = "ready" /\ captures = 1
  /\ last.op = "reset"
  /\ last.was = [SESSION_HANDLE |-> TRUE, SESSION_CAPTURE |-> TRUE]
  /\ last.is = [SESSION_HANDLE |-> FALSE, SESSION_CAPTURE |-> TRUE]
  /\ last.calls = << Call("nvFBCDestroyCaptureSession", handle.handle, "fail"),
                     Call("nvFBCDestroyHandle", handle.handle, "ok") >>

\* handle_t::capture() created the session and failed at the interop set-up
HalfWay ==
  /\ last.op = "capture"
  /\ Len(last.calls) = 2
  /\ last.calls[1].r = "ok" /\ last.calls[2].r = "fail"

\* C23 (as claimed): a handle_t::capture() that fails at the interop set-up
\* after creating the session returns an error with the capture flag set;
\* the next stop() or reset() that finds the flag set issues the
\* destroy-capture-session call; and when capture() has returned, its
\* handle destroyed, no created capture session is left without a
\* destroy-capture-session call.
C23_SessionMatched ==
  /\ HalfWay => (last.ret = -1 /\ CaptureActive(last.is))
  /\ (last.op \in {"stop", "reset"} /\ CaptureActive(last.was)) =>
       /\ last.calls # << >>
       /\ last.calls[1].f = "nvFBCDestroyCaptureSession"
  /\ (pc = "ready" /\ status # "none") => ~pending

\* What the code keeps: the half-way failure leaves the flag set, every
\* stop() that finds the flag set calls the driver, and so does a reset()
\* that finds the handle flag set as well, before its destroy-handle call;
\* a session is left unmatched only if it was created on a handle whose
\* handle flag was already clear, in a later capture() on the same display.
C23_MatchedOnLiveHandle ==
  /\ HalfWay => (last.ret = -1 /\ CaptureActive(last.is))
  /\ (last.op = "stop" /\ CaptureActive(last.was)) =>
       last.calls[1].f = "nvFBCDestroyCaptureSession"
  /\ (last.op = "reset" /\ CaptureActive(last.was) /\ HandleCreated(last.was)) =>
       /\ Len(last.calls) = 2
       /\ last.calls[1].f = "nvFBCDestroyCaptureSession"
       /\ last.calls[2].f = "nvFBCDestroyHandle"
       /\ last.calls[1].h = last.calls[2].h
  /\ (pc = "ready" /\ status # "none" /\ pending) =>
       /\ captures >= 2
       /\ ~HandleCreated(last.was)
       /\ last.calls = << >>

\* The first capture() failed half-way and its exit issued the
\* destroy-capture-session call before the destroy-handle call.
C23_HalfWayMatched ==
  /\ pc = "ready" /\ status = "error" /\ captures = 1
  /\ Count(log, "nvFBCToCudaSetUp", "fail") = 1
  /\ last.op = "reset" /\ Len(last.calls) = 2
  /\ last.calls[1].f = "nvFBCDestroyCaptureSession"
  /\ ~pending

\* The second capture() on a display failed half-way and returned: its
\* reset() issued no call and the session it created is left.
C23_Leaked ==
  /\ pc = "ready" /\ status = "error" /\ captures = 2
  /\ Count(log, "nvFBCCreateCaptureSession", "ok") = 1
  /\ Count(log, "nvFBCToCudaSetUp", "fail") = 1
  /\ CountF(log, "nvFBCDestroyCaptureSession") = 0
  /\ last.op = "reset" /\ last.calls = << >>
  /\ pending /\ CaptureActive(handle.handle_flags)

====
